---- MODULE Spec2Model ----
(***************************************************************************)
(* Dataset archive schema validator and normalizer                         *)
(* (api/src/controllers/database_controller.py).                           *)
(*                                                                         *)
(* One upload_zip request is modelled from the arrival of the request to   *)
(* its response.  File and folder names are sequences of one-character     *)
(* strings, so that os.path.splitext, the two compiled patterns, int() and *)
(* str.partition are computed on the characters as the code computes them. *)
(* The staging tree is the pair (dirs, files): paths are sequences of      *)
(* names relative to the temporary directory, and files maps every file    *)
(* path to the archive entry its content comes from.  os.rename is the     *)
(* POSIX one (a rename onto an existing file replaces it silently).        *)
(***************************************************************************)
EXTENDS Integers, Sequences, FiniteSets, TLC

(***************************************************************************)
(* Bounds of the model.                                                    *)
(***************************************************************************)
\* largest number of files put in one folder of a generated archive
MaxFiles == 2
\* expected_num_classes and expected_num_files_per_class range over 1..MaxExpected
MaxExpected == 2

\* longest stem the pattern matcher is tried on
MaxStemLen == 4

(***************************************************************************)
(* Characters and strings.                                                 *)
(***************************************************************************)
DigitChars == <<"0", "1", "2", "3", "4", "5", "6", "7", "8", "9">>

Digits == {DigitChars[i] : i \in 1..10}

DigitVal(c) == (CHOOSE i \in 1..10 : DigitChars[i] = c) - 1

UpperChars ==
  {"A", "B", "C", "D", "E", "F", "G", "H", "I", "J", "K", "L", "M",
   "N", "O", "P", "Q", "R", "S", "T", "U", "V", "W", "X", "Y", "Z"}

\* \s of the re module, restricted to the ASCII whitespace a name can hold
WhitespaceChars == {" ", "\t", "\n"}

\* the character class [\s\-_]
SepChars == WhitespaceChars \cup {"-", "_"}

\* the character class [A-Z0-9]
ClassChars == UpperChars \cup Digits

SetMin(S) == CHOOSE x \in S : \A y \in S : x <= y

SetMax(S) == CHOOSE x \in S : \A y \in S : y <= x

\* s[from..], the empty sequence when from is past the end
Tail2(s, from) == SubSeq(s, from, Len(s))

\* the decimal numeral of n >= 0, as str(n) writes it
RECURSIVE Numeral(_)
Numeral(n) ==
  IF n < 10 THEN <<DigitChars[n + 1]>>
  ELSE Numeral(n \div 10) \o <<DigitChars[(n % 10) + 1]>>

\* os.path.splitext on a name without a path separator: the extension starts
\* at the last dot, provided some character before that dot is not a dot
splitext(name) ==
  LET dots == {i \in 1..Len(name) : name[i] = "."}
      dotIndex == IF dots = {} THEN 0 ELSE SetMax(dots)
  IN  IF dotIndex > 0 /\ \E k \in 1..(dotIndex - 1) : name[k] # "."
        THEN [root |-> SubSeq(name, 1, dotIndex - 1), ext |-> Tail2(name, dotIndex)]
        ELSE [root |-> name, ext |-> <<>>]

\* str.endswith
endswith(s, suffix) ==
  /\ Len(s) >= Len(suffix)
  /\ Tail2(s, Len(s) - Len(suffix) + 1) = suffix

\* str.partition(sep) for a one-character sep: split at its first occurrence
partition(s, sep) ==
  LET hits == {i \in 1..Len(s) : s[i] = sep}
  IN  IF hits = {} THEN [head |-> s, sep |-> <<>>, tail |-> <<>>]
      ELSE LET k == SetMin(hits)
           IN  [head |-> SubSeq(s, 1, k - 1), sep |-> <<sep>>, tail |-> Tail2(s, k + 1)]

\* the first index >= from whose character is not in S, Len(s)+1 if none
FirstNotIn(s, from, S) ==
  SetMin({k \in from..Len(s) : s[k] \notin S} \cup {Len(s) + 1})

\* re `$`: the end of the string, or the position before a final newline
DollarEnds(s) ==
  {s} \cup (IF Len(s) > 0 /\ s[Len(s)] = "\n" THEN {SubSeq(s, 1, Len(s) - 1)} ELSE {})

\* ^[A-Z0-9]{1,6}[\s\-_]*[\s\-_]+[\s\-_]*[0-9]{2,4} on the whole of s: the
\* three character classes are disjoint, so the split is unique
WithClassBody(s) ==
  LET i == FirstNotIn(s, 1, ClassChars)
      j == FirstNotIn(s, i, SepChars)
      k == FirstNotIn(s, j, Digits)
  IN  /\ (i - 1) \in 1..6
      /\ (j - i) >= 1
      /\ (k - j) \in 2..4
      /\ k = Len(s) + 1

pattern_with_class(stem) == \E t \in DollarEnds(stem) : WithClassBody(t)

pattern_without_class(stem) ==
  \E t \in DollarEnds(stem) :
    /\ Len(t) \in 2..4
    /\ \A i \in 1..Len(t) : t[i] \in Digits

\* str.strip() over the whitespace of the model
strip(s) ==
  LET keep == {i \in 1..Len(s) : s[i] \notin WhitespaceChars}
  IN  IF keep = {} THEN <<>> ELSE SubSeq(s, SetMin(keep), SetMax(keep))

RECURSIVE DigitsValue(_)
DigitsValue(s) ==
  IF Len(s) = 0 THEN 0
  ELSE IF s[Len(s)] = "_" THEN DigitsValue(SubSeq(s, 1, Len(s) - 1))
  ELSE 10 * DigitsValue(SubSeq(s, 1, Len(s) - 1)) + DigitVal(s[Len(s)])

\* int(base_name): surrounding whitespace is stripped, one sign is allowed,
\* single underscores may separate digits; ok = FALSE stands for ValueError
int(base_name) ==
  LET t == strip(base_name)
      signed == Len(t) > 0 /\ t[1] \in {"+", "-"}
      body == IF signed THEN Tail2(t, 2) ELSE t
      wellFormed ==
        /\ Len(body) > 0
        /\ \A i \in 1..Len(body) : body[i] \in Digits \cup {"_"}
        /\ body[1] # "_"
        /\ body[Len(body)] # "_"
        /\ \A i \in 1..(Len(body) - 1) : ~(body[i] = "_" /\ body[i + 1] = "_")
  IN  IF ~wellFormed THEN [ok |-> FALSE, val |-> 0]
      ELSE [ok |-> TRUE,
            val |-> IF signed /\ t[1] = "-" THEN 0 - DigitsValue(body) ELSE DigitsValue(body)]

VALID_EXTENSIONS ==
  { <<".", "b", "m", "p">>, <<".", "j", "p", "g">>, <<".", "j", "p", "e", "g">>,
    <<".", "p", "n", "g">>, <<".", "g", "i", "f">> }

is_valid_image(file_name) == splitext(file_name).ext \in VALID_EXTENSIONS

(***************************************************************************)
(* The staging tree.  A path is a sequence of names below the temporary    *)
(* directory (the empty path); d is the set of directory paths and f maps  *)
(* each file path to the archive entry holding its content.                *)
(***************************************************************************)
Parent(p) == SubSeq(p, 1, Len(p) - 1)

basename(p) == p[Len(p)]

\* os.walk / os.listdir: the sub-directories and the file names of a directory
SubDirs(d, at) == {p \in d : Len(p) = Len(at) + 1 /\ Parent(p) = at}

FileNamesIn(f, at) ==
  {basename(p) : p \in {q \in DOMAIN f : Len(q) = Len(at) + 1 /\ Parent(q) = at}}

IsUnder(p, at) == Len(p) > Len(at) /\ SubSeq(p, 1, Len(at)) = at

\* the function g without the argument p
Without(g, p) == [q \in (DOMAIN g) \ {p} |-> g[q]]

\* the function g with g[p] = v, p added to its domain when absent
With(g, p, v) == [q \in (DOMAIN g) \cup {p} |-> IF q = p THEN v ELSE g[q]]

EmptyFn == [q \in {} |-> <<>>]

\* the orders a listing of the set S can come in
Perms(S) ==
  {o \in [1..Cardinality(S) -> S] : \A i, j \in 1..Cardinality(S) : i # j => o[i] # o[j]}

RECURSIVE SortedSeq(_)
SortedSeq(S) ==
  IF S = {} THEN <<>> ELSE <<SetMin(S)>> \o SortedSeq(S \ {SetMin(S)})

(***************************************************************************)
(* Verdicts.  An HTTPException is a record of its status code, the kind of *)
(* failure its detail message states and the values the message carries.   *)
(***************************************************************************)
Verdict(code, kind, name, found, expected, missing) ==
  [code |-> code, kind |-> kind, name |-> name, found |-> found,
   expected |-> expected, missing |-> missing]

Ok == Verdict(200, "Ok", <<>>, 0, 0, <<>>)

Pending == Verdict(0, "Pending", <<>>, 0, 0, <<>>)

ClientError(kind, name, found, expected) == Verdict(400, kind, name, found, expected, <<>>)

(***************************************************************************)
(* validate_class_folder.  files is the set of names the folder lists; the *)
(* result is the set of verdicts the call can end with, one per order in   *)
(* which os.walk may have listed the files (the first file without a valid *)
(* image extension is the one the error names).                            *)
(***************************************************************************)
\* the lower end of the range is compared strictly: index 1 is never found
found_files_strict(files, expected_num_files_per_class) ==
  {int(splitext(file).root).val :
     file \in {g \in files : /\ int(splitext(g).root).ok
                             /\ int(splitext(g).root).val > 1
                             /\ int(splitext(g).root).val <= expected_num_files_per_class}}

found_files(files, expected_num_files_per_class) ==
  {int(splitext(file).root).val :
     file \in {g \in files : /\ int(splitext(g).root).ok
                             /\ int(splitext(g).root).val >= 1
                             /\ int(splitext(g).root).val <= expected_num_files_per_class}}

\* the file count is compared before the missing numbers are
validate_class_folder_count_first(class_folder, files, expected_num_files_per_class) ==
  LET invalid == {file \in files : ~is_valid_image(file)}
      missing_numbers ==
        (1..expected_num_files_per_class) \ found_files(files, expected_num_files_per_class)
  IN  IF files = {}
        THEN {ClientError("EmptyClassFolder", class_folder, 0, expected_num_files_per_class)}
      ELSE IF invalid # {}
        THEN {ClientError("InvalidImageExtension", class_folder \o <<file>>, 0, 0) :
                file \in invalid}
      ELSE IF Cardinality(files) # expected_num_files_per_class
        THEN {ClientError("FileCountMismatch", class_folder, Cardinality(files),
                          expected_num_files_per_class)}
      ELSE IF missing_numbers # {}
        THEN {Verdict(400, "MissingIndices", class_folder, 0, 0, SortedSeq(missing_numbers))}
      ELSE {Ok}

\* the missing numbers are looked at before the extensions are
validate_class_folder_missing_first(class_folder, files, expected_num_files_per_class) ==
  LET invalid == {file \in files : ~is_valid_image(file)}
      missing_numbers ==
        (1..expected_num_files_per_class) \ found_files(files, expected_num_files_per_class)
  IN  IF files = {}
        THEN {ClientError("EmptyClassFolder", class_folder, 0, expected_num_files_per_class)}
      ELSE IF missing_numbers # {}
        THEN {Verdict(400, "MissingIndices", class_folder, 0, 0, SortedSeq(missing_numbers))}
      ELSE IF invalid # {}
        THEN {ClientError("InvalidImageExtension", class_folder \o <<file>>, 0, 0) :
                file \in invalid}
      ELSE IF Cardinality(files) # expected_num_files_per_class
        THEN {ClientError("FileCountMismatch", class_folder, Cardinality(files),
                          expected_num_files_per_class)}
      ELSE {Ok}

\* the number of files is not compared
validate_class_folder_no_count(class_folder, files, expected_num_files_per_class) ==
  LET invalid == {file \in files : ~is_valid_image(file)}
      missing_numbers ==
        (1..expected_num_files_per_class) \ found_files(files, expected_num_files_per_class)
  IN  IF files = {}
        THEN {ClientError("EmptyClassFolder", class_folder, 0, expected_num_files_per_class)}
      ELSE IF invalid # {}
        THEN {ClientError("InvalidImageExtension", class_folder \o <<file>>, 0, 0) :
                file \in invalid}
      ELSE IF missing_numbers # {}
        THEN {Verdict(400, "MissingIndices", class_folder, 0, 0, SortedSeq(missing_numbers))}
      ELSE {Ok}

validate_class_folder(class_folder, files, expected_num_files_per_class) ==
  LET invalid == {file \in files : ~is_valid_image(file)}
      missing_numbers ==
        (1..expected_num_files_per_class) \ found_files(files, expected_num_files_per_class)
  IN  IF files = {}
        THEN {ClientError("EmptyClassFolder", class_folder, 0, expected_num_files_per_class)}
      ELSE IF invalid # {}
        THEN {ClientError("InvalidImageExtension", class_folder \o <<file>>, 0, 0) :
                file \in invalid}
      ELSE IF missing_numbers # {}
        THEN {Verdict(400, "MissingIndices", class_folder, 0, 0, SortedSeq(missing_numbers))}
      ELSE IF Cardinality(files) # expected_num_files_per_class
        THEN {ClientError("FileCountMismatch", class_folder, Cardinality(files),
                          expected_num_files_per_class)}
      ELSE {Ok}

(***************************************************************************)
(* validate_zip_structure on the tree (d, f) rooted at the temporary       *)
(* directory.  The walk is top-down: the root, the <DB> folder, then the   *)
(* class folders in listing order, so the failure raised is that of the    *)
(* first defective class folder listed; the class-folder count is checked  *)
(* after the walk.                                                         *)
(***************************************************************************)
ClassFolderVerdicts(d, f, c, expected_num_files_per_class) ==
  IF SubDirs(d, c) # {}
    THEN {ClientError("UnexpectedSubfolder", c, 0, 0)}
    ELSE validate_class_folder(c, FileNamesIn(f, c), expected_num_files_per_class)

\* class_folders as the walk collects it: the sub-directories of the <DB> folder
class_folders_of(d) ==
  IF Cardinality(SubDirs(d, <<>>)) # 1 THEN {}
  ELSE SubDirs(d, CHOOSE db \in SubDirs(d, <<>>) : TRUE)

\* the number of class folders is compared before the class folders are
\* looked into
validate_zip_structure_count_first(d, f, expected_num_classes, expected_num_files_per_class) ==
  LET top == SubDirs(d, <<>>)
      class_folders == class_folders_of(d)
      failing == {c \in class_folders :
                    ClassFolderVerdicts(d, f, c, expected_num_files_per_class) # {Ok}}
  IN  IF Cardinality(top) # 1
        THEN {ClientError("InvalidRootCount", <<>>, Cardinality(top), 1)}
      ELSE IF class_folders = {}
        THEN {ClientError("NoClassFolders", CHOOSE db \in top : TRUE, 0, 0)}
      ELSE IF Cardinality(class_folders) # expected_num_classes
        THEN {ClientError("ClassCountMismatch", <<>>, Cardinality(class_folders),
                          expected_num_classes)}
      ELSE IF failing # {}
        THEN UNION {ClassFolderVerdicts(d, f, c, expected_num_files_per_class) : c \in failing}
      ELSE {Ok}

\* the root is refused only when it holds no directory at all
validate_zip_structure_no_root_only(d, f, expected_num_classes, expected_num_files_per_class) ==
  LET top == SubDirs(d, <<>>)
      class_folders == class_folders_of(d)
      failing == {c \in class_folders :
                    ClassFolderVerdicts(d, f, c, expected_num_files_per_class) # {Ok}}
  IN  IF Cardinality(top) = 0
        THEN {ClientError("InvalidRootCount", <<>>, Cardinality(top), 1)}
      ELSE IF class_folders = {}
        THEN {ClientError("NoClassFolders", CHOOSE db \in top : TRUE, 0, 0)}
      ELSE IF failing # {}
        THEN UNION {ClassFolderVerdicts(d, f, c, expected_num_files_per_class) : c \in failing}
      ELSE IF Cardinality(class_folders) # expected_num_classes
        THEN {ClientError("ClassCountMismatch", <<>>, Cardinality(class_folders),
                          expected_num_classes)}
      ELSE {Ok}

validate_zip_structure(d, f, expected_num_classes, expected_num_files_per_class) ==
  LET top == SubDirs(d, <<>>)
      class_folders == class_folders_of(d)
      failing == {c \in class_folders :
                    ClassFolderVerdicts(d, f, c, expected_num_files_per_class) # {Ok}}
  IN  IF Cardinality(top) # 1
        THEN {ClientError("InvalidRootCount", <<>>, Cardinality(top), 1)}
      ELSE IF class_folders = {}
        THEN {ClientError("NoClassFolders", CHOOSE db \in top : TRUE, 0, 0)}
      ELSE IF failing # {}
        THEN UNION {ClassFolderVerdicts(d, f, c, expected_num_files_per_class) : c \in failing}
      ELSE IF Cardinality(class_folders) # expected_num_classes
        THEN {ClientError("ClassCountMismatch", <<>>, Cardinality(class_folders),
                          expected_num_classes)}
      ELSE {Ok}

(***************************************************************************)
(* validate_flat_zip_structure, one loose file at a time.  st is the state *)
(* of the call: the tree (d, f), file_count_per_class and the verdict      *)
(* (Pending while no exception was raised).  temp_dir is the path of the   *)
(* working root the call was given.                                        *)
(***************************************************************************)
InternalFault(name) == Verdict(500, "InternalFault", name, 0, 0, <<>>)

\* file_name_without_ext == temp_dir (lines 105, 117, 137, 168): temp_dir is
\* the absolute path of the working root, which holds a path separator, and
\* a file name holds none
MatchesTempDirName(file_name_without_ext) == FALSE

\* lines 143 and 176: partition at the first space when the stem holds a
\* space, at the first underscore otherwise
split_class(file_name_without_ext) ==
  partition(file_name_without_ext,
            IF \E i \in 1..Len(file_name_without_ext) : file_name_without_ext[i] = " "
              THEN " " ELSE "_")

\* os.rename(src, dst) on POSIX: dst is replaced when it is a file
rename(f, src, dst) == With(Without(f, src), dst, f[src])

\* the dictionary is created anew in the loop: it keeps the last class only
count_add_reset(counts, file_class) ==
  [q \in {file_class} |-> IF file_class \in DOMAIN counts THEN counts[file_class] + 1 ELSE 1]

count_add(counts, file_class) ==
  With(counts, file_class, IF file_class \in DOMAIN counts THEN counts[file_class] + 1 ELSE 1)

\* the stem is not matched against pattern_with_class
move_loose_file_unchecked(st, temp_dir, file_path) ==
  LET file_name == basename(file_path)
      file_name_without_ext == splitext(file_name).root
      file_ext == splitext(file_name).ext
      file_class == split_class(file_name_without_ext).head
      file_part == split_class(file_name_without_ext).tail
      class_folder == temp_dir \o <<file_class>>
      new_file_name == file_part \o file_ext
      new_file_path == class_folder \o <<new_file_name>>
  IN  IF MatchesTempDirName(file_name_without_ext) THEN st
      ELSE IF class_folder \in DOMAIN st.f
        THEN [st EXCEPT !.verdict = InternalFault(class_folder)]
      ELSE IF new_file_name = <<>> \/ new_file_path \in st.d
        THEN [st EXCEPT !.d = @ \cup {class_folder},
                        !.verdict = InternalFault(new_file_path)]
      ELSE [st EXCEPT !.d = @ \cup {class_folder},
                      !.f = rename(@, file_path, new_file_path),
                      !.counts = count_add(@, file_class)]

move_loose_file(st, temp_dir, file_path) ==
  LET file_name == basename(file_path)
      file_name_without_ext == splitext(file_name).root
      file_ext == splitext(file_name).ext
      file_class == split_class(file_name_without_ext).head
      file_part == split_class(file_name_without_ext).tail
      class_folder == temp_dir \o <<file_class>>
      new_file_name == file_part \o file_ext
      new_file_path == class_folder \o <<new_file_name>>
  IN  IF MatchesTempDirName(file_name_without_ext) THEN st
      ELSE IF ~pattern_with_class(file_name_without_ext)
        THEN [st EXCEPT !.verdict = ClientError("UnrecognizedFilename", file_path, 0, 0)]
      \* os.makedirs(class_folder, exist_ok=True) on the path of a file
      ELSE IF class_folder \in DOMAIN st.f
        THEN [st EXCEPT !.verdict = InternalFault(class_folder)]
      \* os.rename onto a directory, or onto the class folder itself
      ELSE IF new_file_name = <<>> \/ new_file_path \in st.d
        THEN [st EXCEPT !.d = @ \cup {class_folder},
                        !.verdict = InternalFault(new_file_path)]
      ELSE [st EXCEPT !.d = @ \cup {class_folder},
                      !.f = rename(@, file_path, new_file_path),
                      !.counts = count_add(@, file_class)]

\* lines 134-156, one turn of the loop over the files of the class folder
\* root: a class-qualified file whose class part is the folder name is
\* renamed to its file part, a bare index is left alone
rename_in_class_folder(st, root, file) ==
  LET class_name == basename(root)
      file_name_without_ext == splitext(file).root
      file_ext == splitext(file).ext
      file_class == split_class(file_name_without_ext).head
      file_part == split_class(file_name_without_ext).tail
      new_file_name == file_part \o file_ext
      new_file_path == root \o <<new_file_name>>
  IN  IF MatchesTempDirName(file_name_without_ext) THEN st
      ELSE IF pattern_with_class(file_name_without_ext)
        THEN IF file_class # class_name
               THEN [st EXCEPT !.verdict =
                       ClientError("ClassTokenMismatch", root \o <<file>>, 0, 0)]
             \* os.rename onto the folder itself
             ELSE IF new_file_name = <<>>
               THEN [st EXCEPT !.verdict = InternalFault(new_file_path)]
             ELSE [st EXCEPT !.f = rename(@, root \o <<file>>, new_file_path)]
      ELSE IF ~pattern_without_class(file_name_without_ext)
        THEN [st EXCEPT !.verdict =
                ClientError("UnrecognizedFilename", root \o <<file>>, 0, 0)]
      ELSE st

RECURSIVE rename_all(_, _, _)
rename_all(st, root, order) ==
  IF order = <<>> \/ st.verdict # Pending THEN st
  ELSE rename_all(rename_in_class_folder(st, root, Head(order)), root, Tail(order))

\* lines 124-159: the walk visits the folder root, two levels below the
\* working root, whose files are listed in the order given
visit_class_folder(st, root, order, expected_num_files_per_class) ==
  IF SubDirs(st.d, root) # {}
    THEN [st EXCEPT !.verdict = ClientError("UnexpectedSubfolder", root, 0, 0)]
  ELSE IF Len(order) # expected_num_files_per_class
    THEN [st EXCEPT !.verdict =
            ClientError("FileCountMismatch", root, Len(order), expected_num_files_per_class)]
  ELSE IF rename_all(st, root, order).verdict # Pending
    THEN rename_all(st, root, order)
  ELSE [rename_all(st, root, order) EXCEPT
          !.counts = With(@, basename(root), Len(order))]

\* the counts of the classes are compared before the number of classes is
flat_final_check_files_first(counts, expected_num_classes, expected_num_files_per_class) ==
  LET bad == {c \in DOMAIN counts : counts[c] # expected_num_files_per_class}
  IN  IF bad # {}
        THEN {ClientError("FileCountMismatch", <<c>>, counts[c],
                          expected_num_files_per_class) : c \in bad}
      ELSE IF Cardinality(DOMAIN counts) # expected_num_classes
        THEN {ClientError("ClassCountMismatch", <<>>, Cardinality(DOMAIN counts),
                          expected_num_classes)}
      ELSE {Ok}

\* lines 192-199: the verdicts the final checks can end with (the class a
\* file-count failure names is the first one of the dictionary that fails)
flat_final_check(counts, expected_num_classes, expected_num_files_per_class) ==
  LET bad == {c \in DOMAIN counts : counts[c] # expected_num_files_per_class}
  IN  IF Cardinality(DOMAIN counts) # expected_num_classes
        THEN {ClientError("ClassCountMismatch", <<>>, Cardinality(DOMAIN counts),
                          expected_num_classes)}
      ELSE IF bad # {}
        THEN {ClientError("FileCountMismatch", <<c>>, counts[c],
                          expected_num_files_per_class) : c \in bad}
      ELSE {Ok}

\* the whole of lines 162-201 for one listing order of the loose files
RECURSIVE move_all(_, _, _)
move_all(st, temp_dir, order) ==
  IF order = <<>> \/ st.verdict # Pending THEN st
  ELSE move_all(move_loose_file(st, temp_dir, Head(order)), temp_dir, Tail(order))

\* validate_flat_zip_structure(temp_dir, ...) as upload_zip calls it, on the
\* tree (d, f) whose working root holds no directory, for one listing order
\* of the loose files: whether it returns True, and the tree and the counts
\* it leaves when it does
flat_run(d, f, temp_dir, order, expected_num_classes, expected_num_files_per_class) ==
  LET st == move_all([d |-> d, f |-> f, counts |-> EmptyFn, verdict |-> Pending],
                     temp_dir, order)
      accepted ==
        /\ st.verdict = Pending
        /\ flat_final_check(st.counts, expected_num_classes,
                            expected_num_files_per_class) = {Ok}
  IN  [accepted |-> accepted,
       dirs |-> IF accepted THEN st.d ELSE {},
       names |-> IF accepted THEN DOMAIN st.f ELSE {},
       counts |-> IF accepted THEN st.counts ELSE EmptyFn]

\* object_name (line 243): the path relative to the staging root, joined by
\* '/', every backslash replaced by '/'
RECURSIVE join(_)
join(p) ==
  IF Len(p) = 0 THEN <<>>
  ELSE IF Len(p) = 1 THEN p[1]
  ELSE p[1] \o <<"/">> \o join(Tail(p))

object_name(p) ==
  [i \in 1..Len(join(p)) |-> IF join(p)[i] = "\\" THEN "/" ELSE join(p)[i]]

(***************************************************************************)
(* The requests the model sends.                                           *)
(***************************************************************************)
png == <<".", "p", "n", "g">>

jpg == <<".", "j", "p", "g">>

txt == <<".", "t", "x", "t">>

ds == <<"d", "s">>

dsZip == ds \o <<".", "z", "i", "p">>

dsTar == ds \o <<".", "t", "a", "r">>

other == <<"o", "t", "h", "e", "r">>

ClassNames == << <<"A">>, <<"B">>, <<"C">>, <<"D">> >>

\* names of loose files of flat archives
LooseNames ==
  { <<"A", "_", "0", "1">> \o png,      \* class A, index 01
    <<"A", " ", "0", "1">> \o png,      \* class A, index 01 again
    <<"A", "_", "0", "2">> \o png,
    <<"B", "_", "0", "1">> \o jpg,
    <<"A", "-", "0", "1">> \o png,      \* hyphen as the only separator
    <<"A", "_", " ", "0", "1">> \o png, \* two separators, a space among them
    <<"A", "_", "_", "0", "1">> \o png, \* two underscores
    <<"A", "_", "0", "1">> \o txt,      \* not an image
    <<"0", "1">> \o png,                \* bare index
    <<"A", "_", "1">> \o png,           \* index of one digit: neither pattern
    <<"A">> }                           \* the name of a class folder, no extension

\* the file holding index i of a well-formed class folder
NumberedFile(i) == Numeral(i) \o (IF i % 2 = 1 THEN png ELSE jpg)

\* names of files of class folders of structured archives
ClassFileNames ==
  {NumberedFile(i) : i \in 1..MaxExpected}
    \cup { <<"0", "1">> \o png, <<"1">> \o txt, <<"x">> \o png }

UpTo(S, n) == {T \in SUBSET S : Cardinality(T) <= n}

Archive(d, fs) == [dirs |-> d, files |-> fs]

FlatArchives ==
  {Archive({<<ds>>}, {<<ds, n>> : n \in loose}) : loose \in UpTo(LooseNames, MaxFiles)}

\* the class folders cls, the first of them holding up to MaxFiles files
\* and the others up to one
StructuredOn(cls) ==
  {Archive({<<ds>>} \cup {<<ds, c>> : c \in cls},
           UNION {{<<ds, c, n>> : n \in content[c]} : c \in cls}) :
     content \in {g \in [cls -> UpTo(ClassFileNames, MaxFiles)] :
                    \A c \in cls : c # ClassNames[1] => Cardinality(g[c]) <= 1}}

StructuredArchives ==
  StructuredOn({ClassNames[1]}) \cup StructuredOn({ClassNames[1], ClassNames[2]})

\* nc class folders holding the files numbered 1..nf each
WellFormed(nc, nf) ==
  Archive({<<ds>>} \cup {<<ds, ClassNames[c]>> : c \in 1..nc},
          {<<ds, ClassNames[c], NumberedFile(i)>> : c \in 1..nc, i \in 1..nf})

\* an archive with one more entry next to those of a
Plus(a, d, fs) == Archive(a.dirs \cup d, a.files \cup fs)

Variants(a) ==
  { a,
    Plus(a, {}, {<<ds, <<"n", "o", "t", "e", "s">> \o txt>>}),
    Plus(a, {}, {<<<<"r", "e", "a", "d", "m", "e">> \o txt>>}),
    Plus(a, {<<other>>}, {<<other, <<"x">> \o txt>>}),
    Plus(a, {<<ds, ClassNames[1]>>, <<ds, ClassNames[1], <<"s", "u", "b">>>>},
            {<<ds, ClassNames[1], <<"s", "u", "b">>, NumberedFile(1)>>}) }

VariantArchives ==
  UNION {Variants(WellFormed(nc, nf)) : nc \in 1..MaxExpected, nf \in 1..MaxExpected}
    \cup Variants(Archive({<<ds>>}, {<<ds, <<"A", "_", "0", "1">> \o png>>}))

UnroutableArchives ==
  { Archive({}, {}),
    Archive({}, {<<ds>>}),
    Archive({<<other>>}, {<<other, NumberedFile(1)>>}) }

\* a flat archive next to a top-level folder whose name holds a backslash
\* (ds\A); on POSIX the backslash is a character of the name, in the zip
\* entry and in the extracted directory
BackslashArchives ==
  { Archive({<<ds>>, <<ds \o <<"\\">> \o ClassNames[1]>>},
            {<<ds, <<"A", "_", "0", "1">> \o png>>,
             <<ds \o <<"\\">> \o ClassNames[1], <<"0", "1">> \o png>>}) }

Archives ==
  FlatArchives \cup StructuredArchives \cup VariantArchives \cup UnroutableArchives
    \cup BackslashArchives

ExpectedRange == 1..MaxExpected

Request(name, exists, a, nc, nf) ==
  [filename |-> name, bucket_exists |-> exists, archive |-> a,
   expected_num_classes |-> nc, expected_num_files_per_class |-> nf]

Requests ==
  {Request(dsZip, TRUE, a, nc, nf) : a \in Archives, nc \in ExpectedRange, nf \in ExpectedRange}
    \cup {Request(dsTar, TRUE, WellFormed(1, 1), 1, 1),
          Request(dsZip, FALSE, WellFormed(1, 1), 1, 1)}

(***************************************************************************)
(* Working roots of any shape, for validate_flat_zip_structure called on   *)
(* its own: loose files, folders one level below the working root (one of  *)
(* them bearing the name of the working root) and folders two levels       *)
(* below it.                                                               *)
(***************************************************************************)
X == <<"X">>

Y == <<"Y">>

\* names of files of the folders below the working root
GroupedNames ==
  { <<"A", "_", "0", "1">> \o png,      \* class A, index 01
    <<"A", " ", "0", "2">> \o png,      \* class A, index 02
    <<"B", "_", "0", "1">> \o jpg,      \* class B
    <<"0", "1">> \o png,                \* bare index
    <<"x">> \o png }                    \* neither pattern

\* names of the loose files next to those folders
LooseNextToFolders ==
  { <<"A", "_", "0", "1">> \o png, <<"B", "_", "0", "1">> \o jpg, <<"0", "1">> \o png }

\* the folder at path holding the files named in content
Folder(path, content) ==
  Archive({SubSeq(path, 1, i) : i \in 1..Len(path)}, {path \o <<n>> : n \in content})

Union(a, b) == Archive(a.dirs \cup b.dirs, a.files \cup b.files)

LooseParts == {Folder(<<ds>>, loose) : loose \in UpTo(LooseNextToFolders, 1)}

\* one folder two levels below the working root
OneDeepFolder ==
  {Union(l, Folder(<<ds, X, ClassNames[1]>>, content)) :
     l \in LooseParts, content \in UpTo(GroupedNames, MaxFiles)}

\* two of them, of one class name or of two
TwoDeepFolders ==
  {Union(Folder(<<ds, X, ClassNames[1]>>, a), Folder(second, b)) :
     second \in {<<ds, X, ClassNames[2]>>, <<ds, Y, ClassNames[1]>>},
     a \in UpTo(GroupedNames, 1), b \in UpTo(GroupedNames, 1)}

\* one folder one level below the working root
OneShallowFolder ==
  {Union(l, Folder(<<ds, name>>, content)) :
     l \in LooseParts, name \in {ClassNames[1], ClassNames[3], ds},
     content \in UpTo(GroupedNames, 1)}

\* a folder two levels below that holds a folder
DeepFolderWithSubfolder ==
  {Union(Folder(<<ds, X, ClassNames[1]>>, content),
         Folder(<<ds, X, ClassNames[1], <<"s", "u", "b">>>>, {NumberedFile(1)})) :
     content \in UpTo(GroupedNames, 1)}

WorkingRoots ==
  OneDeepFolder \cup TwoDeepFolders \cup OneShallowFolder \cup DeepFolderWithSubfolder

\* staging trees of any shape, for validate_zip_structure called on its own:
\* those of the requests and, beyond what the routing lets through, trees
\* without a top-level directory and dataset roots without a class folder
StagingTrees == Archives

StructuredCalls ==
  {Request(dsZip, TRUE, a, nc, nf) :
     a \in StagingTrees, nc \in ExpectedRange, nf \in ExpectedRange}

\* the characters of the stems the patterns are tried on: a class
\* character, a lower-case letter, a digit, a separator, and the two
\* whitespace characters a name can hold besides the space
StemChars == {"A", "a", "0", "_", "\t", "\n"}

Stems == UNION {[1..n -> StemChars] : n \in 1..MaxStemLen}

\* one file of the given stem, alone in a folder two levels below the
\* working root, where lines 141 and 154 match it against both patterns
PatternCalls ==
  {Request(dsZip, TRUE, Folder(<<ds, X, ClassNames[1]>>, {stem \o png}), 1, 1) :
     stem \in Stems}

\* validate_flat_zip_structure given a working root that is structured
\* already; expected_num_classes is an int of the query string that nothing
\* constrains (line 203), 0 included
MisroutedCalls ==
  {Request(dsZip, TRUE, WellFormed(c, f), nc, nf) :
     c \in ExpectedRange, f \in ExpectedRange,
     nc \in 0..MaxExpected, nf \in ExpectedRange}

FlatCalls ==
  {Request(dsZip, TRUE, a, nc, nf) :
     a \in WorkingRoots, nc \in ExpectedRange, nf \in ExpectedRange}
    \cup PatternCalls \cup MisroutedCalls

(***************************************************************************)
(* State of one upload_zip request.                                        *)
(***************************************************************************)
VARIABLES
  pc,                    \* position of the request in upload_zip
  request,               \* the arguments of the call and the uploaded archive
  dirs,                  \* directories of the staging tree
  files,                 \* files of the staging tree -> archive entry of the content
  mode,                  \* validator chosen by the routing
  files_outside_classes, \* loose files the flat walk listed, not moved yet
  file_count_per_class,  \* the dictionary of validate_flat_zip_structure
  walk_pending,          \* folders the walk of validate_flat_zip_structure has yet to visit
  validated,             \* the chosen validator returned True
  response,              \* verdict of the request
  uploaded,              \* files the upload walk has passed to put_object
  stored,                \* object store: object name -> archive entry of the content
  put_calls,             \* number of put_object calls made
  acquired,              \* temporary directories created
  released,              \* temporary directories cleaned up
  suspended,             \* the requests waiting at an await, NoRequest when there is one request
  shared_files           \* files written outside every temporary directory: name -> bytes

vars ==
  <<pc, request, dirs, files, mode, files_outside_classes, file_count_per_class,
    walk_pending, validated, response, uploaded, stored, put_calls, acquired, released,
    suspended, shared_files>>

tree == <<dirs, files>>

flat_state == <<files_outside_classes, file_count_per_class, walk_pending>>

storage == <<uploaded, stored, put_calls>>

staging == <<acquired, released>>

world == <<suspended, shared_files>>

\* upload_zip is called once: no other request is in flight
NoRequest == <<>>

\* os.path.join(temp_dir, zip_name_without_extension), line 223
matching_dir_path == <<splitext(request.filename).root>>

\* the staging tree after lines 211-217: the uploaded file and, next to it,
\* the entries of the archive
extracted_dirs(req) == req.archive.dirs

extracted_files(req) == [p \in req.archive.files \cup {<<req.filename>>} |-> p]

Init ==
  /\ pc = "request"
  /\ request \in Requests
  /\ dirs = {}
  /\ files = EmptyFn
  /\ mode = "none"
  /\ files_outside_classes = {}
  /\ file_count_per_class = EmptyFn
  /\ walk_pending = {}
  /\ validated = FALSE
  /\ response = Pending
  /\ uploaded = {}
  /\ stored = EmptyFn
  /\ put_calls = 0
  /\ acquired = 0
  /\ released = 0
  /\ suspended = NoRequest
  /\ shared_files = EmptyFn

\* the exception is recorded and the upload loop is entered all the same
Raise_Continue(v) ==
  /\ response' = v
  /\ pc' = "upload"

\* an exception raised inside the with block: the block is left
Raise(v) ==
  /\ response' = v
  /\ pc' = "release"

\* lines 204-205
RejectNotZip ==
  /\ pc = "request"
  /\ ~endswith(request.filename, <<".", "z", "i", "p">>)
  /\ response' = ClientError("NotAZip", request.filename, 0, 0)
  /\ pc' = "done"
  /\ UNCHANGED <<request, tree, mode, flat_state, validated, storage, staging, world>>

\* line 207, check_bucket_exists
RejectNoBucket ==
  /\ pc = "request"
  /\ endswith(request.filename, <<".", "z", "i", "p">>)
  /\ ~request.bucket_exists
  /\ response' = Verdict(404, "NoBucket", <<>>, 0, 0, <<>>)
  /\ pc' = "done"
  /\ UNCHANGED <<request, tree, mode, flat_state, validated, storage, staging, world>>

\* lines 210-217: the temporary directory is created, the upload is written
\* into it and the archive is extracted next to it
Extract ==
  /\ pc = "request"
  /\ endswith(request.filename, <<".", "z", "i", "p">>)
  /\ request.bucket_exists
  /\ acquired' = acquired + 1
  /\ dirs' = extracted_dirs(request)
  /\ files' = extracted_files(request)
  /\ pc' = "route"
  /\ UNCHANGED <<request, mode, flat_state, validated, response, storage, released, world>>

\* lines 226-230
RouteStructured ==
  /\ pc = "route"
  /\ matching_dir_path \in dirs
  /\ SubDirs(dirs, matching_dir_path) # {}
  /\ mode' = "structured"
  /\ pc' = "validate"
  /\ UNCHANGED <<request, tree, flat_state, validated, response, storage, staging, world>>

\* the flat validator is chosen whatever the matching directory holds
RouteFlat_Always ==
  /\ pc = "route"
  /\ matching_dir_path \in dirs
  /\ mode' = "flat"
  /\ pc' = "flat_walk"
  /\ UNCHANGED <<request, tree, flat_state, validated, response, storage, staging, world>>

\* lines 226-233
RouteFlat ==
  /\ pc = "route"
  /\ matching_dir_path \in dirs
  /\ SubDirs(dirs, matching_dir_path) = {}
  /\ mode' = "flat"
  /\ pc' = "flat_walk"
  /\ UNCHANGED <<request, tree, flat_state, validated, response, storage, staging, world>>

\* lines 234-236
RouteFail ==
  /\ pc = "route"
  /\ matching_dir_path \notin dirs
  /\ Raise(ClientError("ValidationFailed", matching_dir_path, 0, 0))
  /\ UNCHANGED <<request, tree, mode, flat_state, validated, storage, staging, world>>

\* the upload walk (lines 239-241) lists every file that is not directly in
\* the temporary directory
upload_walk(f) == {p \in DOMAIN f : Len(p) >= 2}

\* the verdicts validate_zip_structure(temp_dir, ...) can end with on the
\* staging tree
structured_verdicts ==
  validate_zip_structure(dirs, files, request.expected_num_classes,
                         request.expected_num_files_per_class)

\* line 230: validate_zip_structure(temp_dir, ...) returns True
ValidateStructuredAccepts ==
  /\ pc = "validate"
  /\ Ok \in structured_verdicts
  /\ validated' = TRUE
  /\ pc' = "upload"
  /\ UNCHANGED <<request, tree, mode, flat_state, response, storage, staging, world>>

\* the tree is emptied before the exception leaves the validator
ValidateStructuredRejects_Cleaning ==
  /\ pc = "validate"
  /\ \E v \in structured_verdicts \ {Ok} :
       Raise(v)
  /\ dirs' = {}
  /\ files' = EmptyFn
  /\ UNCHANGED <<request, mode, flat_state, validated, storage, staging, world>>

\* line 230: validate_zip_structure(temp_dir, ...) raises
ValidateStructuredRejects ==
  /\ pc = "validate"
  /\ \E v \in structured_verdicts \ {Ok} :
       Raise(v)
  /\ UNCHANGED <<request, tree, mode, flat_state, validated, storage, staging, world>>

\* the state of the call the walk and the loop of lines 163-190 work on
flat_call_state ==
  [d |-> dirs, f |-> files, counts |-> file_count_per_class, verdict |-> Pending]

\* the folders the walk takes for class folders (line 124): rel_path holds
\* one '/', which is two levels below the working root
class_folders_walked(d, temp_dir) ==
  {q \in d : Len(q) = Len(temp_dir) + 2 /\ IsUnder(q, temp_dir)}

\* lines 91-122 of validate_flat_zip_structure(matching_dir_path, ...): the
\* walk lists the files of the working root and those of a folder of the
\* working root that bears its name (line 95); the files of any other folder
\* one level below the working root match neither branch.  upload_zip calls
\* the function on a working root that holds no directory (RouteFlat), so
\* there the walk visits the root alone and the class-folder branch of lines
\* 124-159 is not entered (FlatRootHasNoFolder)
FlatWalk ==
  /\ pc = "flat_walk"
  /\ files_outside_classes' =
       {p \in DOMAIN files : /\ \/ Parent(p) = matching_dir_path
                                \/ Parent(p) = matching_dir_path \o <<basename(matching_dir_path)>>
                             /\ IsUnder(p, matching_dir_path)
                             /\ ~MatchesTempDirName(splitext(basename(p)).root)}
  /\ file_count_per_class' = EmptyFn
  /\ walk_pending' = class_folders_walked(dirs, matching_dir_path)
  /\ pc' = IF class_folders_walked(dirs, matching_dir_path) = {}
             THEN "flat_move" ELSE "flat_walk_folders"
  /\ UNCHANGED <<request, tree, mode, validated, response, storage, staging, world>>

\* lines 124-159, the walk reaches one of the folders left and no exception
\* is raised there; the folders and the files of each come in any order
FlatVisitClassFolder ==
  /\ pc = "flat_walk_folders"
  /\ \E root \in walk_pending :
       \E order \in Perms(FileNamesIn(files, root)) :
         /\ visit_class_folder(flat_call_state, root, order,
                               request.expected_num_files_per_class).verdict = Pending
         /\ files' = visit_class_folder(flat_call_state, root, order,
                                        request.expected_num_files_per_class).f
         /\ file_count_per_class' =
              visit_class_folder(flat_call_state, root, order,
                                 request.expected_num_files_per_class).counts
         /\ walk_pending' = walk_pending \ {root}
         /\ pc' = IF walk_pending = {root} THEN "flat_move" ELSE "flat_walk_folders"
  /\ UNCHANGED <<request, dirs, mode, files_outside_classes, validated, response,
                 storage, staging, world>>

\* lines 124-159, the visit of the folder raises
FlatVisitClassFolderFails ==
  /\ pc = "flat_walk_folders"
  /\ \E root \in walk_pending :
       \E order \in Perms(FileNamesIn(files, root)) :
         /\ visit_class_folder(flat_call_state, root, order,
                               request.expected_num_files_per_class).verdict # Pending
         /\ files' = visit_class_folder(flat_call_state, root, order,
                                        request.expected_num_files_per_class).f
         /\ walk_pending' = walk_pending \ {root}
         /\ Raise(visit_class_folder(flat_call_state, root, order,
                                     request.expected_num_files_per_class).verdict)
  /\ UNCHANGED <<request, dirs, mode, files_outside_classes, file_count_per_class,
                 validated, storage, staging, world>>

\* the files the loop can take next: the list holds the files of the
\* working root first (the walk is top-down), each folder in listing order
listed_next ==
  {p \in files_outside_classes : \A q \in files_outside_classes : Len(p) <= Len(q)}

\* lines 163-190, one turn of the loop that moves the file; the list is in
\* the order of the directory listing, which is any order
FlatMoveFile ==
  /\ pc = "flat_move"
  /\ \E file_path \in listed_next :
       /\ move_loose_file(flat_call_state, matching_dir_path, file_path).verdict = Pending
       /\ dirs' = move_loose_file(flat_call_state, matching_dir_path, file_path).d
       /\ files' = move_loose_file(flat_call_state, matching_dir_path, file_path).f
       /\ file_count_per_class' =
            move_loose_file(flat_call_state, matching_dir_path, file_path).counts
       /\ files_outside_classes' = files_outside_classes \ {file_path}
  /\ UNCHANGED <<pc, request, mode, walk_pending, validated, response, storage, staging, world>>

\* lines 163-190, one turn of the loop that raises
FlatMoveFileFails ==
  /\ pc = "flat_move"
  /\ \E file_path \in listed_next :
       /\ move_loose_file(flat_call_state, matching_dir_path, file_path).verdict # Pending
       /\ dirs' = move_loose_file(flat_call_state, matching_dir_path, file_path).d
       /\ files' = move_loose_file(flat_call_state, matching_dir_path, file_path).f
       /\ file_count_per_class' =
            move_loose_file(flat_call_state, matching_dir_path, file_path).counts
       /\ files_outside_classes' = files_outside_classes \ {file_path}
       /\ Raise(move_loose_file(flat_call_state, matching_dir_path, file_path).verdict)
  /\ UNCHANGED <<request, mode, walk_pending, validated, storage, staging, world>>

\* the verdicts the final checks can end with on the counts accumulated
flat_verdicts ==
  flat_final_check(file_count_per_class, request.expected_num_classes,
                   request.expected_num_files_per_class)

\* while the walk and the loop run, the directories of the working root are
\* the class folders the loop created
FlatRootHasNoFolder ==
  /\ \A p \in dirs \cup DOMAIN files : Len(p) > 1 => Parent(p) \in dirs
  /\ pc = "flat_walk" => SubDirs(dirs, matching_dir_path) = {}
  /\ pc # "flat_walk_folders" /\ walk_pending = {}
  /\ pc = "flat_move" =>
        \A c \in SubDirs(dirs, matching_dir_path) : basename(c) \in DOMAIN file_count_per_class

\* lines 192-201: both checks pass
FlatFinalCheckAccepts ==
  /\ pc = "flat_move"
  /\ files_outside_classes = {}
  /\ Ok \in flat_verdicts
  /\ validated' = TRUE
  /\ pc' = "upload"
  /\ UNCHANGED <<request, tree, mode, flat_state, response, storage, staging, world>>

\* lines 192-199: one of the checks raises
FlatFinalCheckRejects ==
  /\ pc = "flat_move"
  /\ files_outside_classes = {}
  /\ \E v \in flat_verdicts \ {Ok} :
       Raise(v)
  /\ UNCHANGED <<request, tree, mode, flat_state, validated, storage, staging, world>>

\* lines 242-252: put_object returns
PutObject ==
  /\ pc = "upload"
  /\ \E file_path \in upload_walk(files) \ uploaded :
       /\ stored' = With(stored, object_name(file_path), files[file_path])
       /\ uploaded' = uploaded \cup {file_path}
  /\ put_calls' = put_calls + 1
  /\ UNCHANGED <<pc, request, tree, mode, flat_state, validated, response, staging, world>>

\* lines 253-254: put_object raises S3Error
PutObjectFails ==
  /\ pc = "upload"
  /\ \E file_path \in upload_walk(files) \ uploaded :
       Raise(Verdict(500, "StorageError", file_path, 0, 0, <<>>))
  /\ put_calls' = put_calls + 1
  /\ UNCHANGED <<request, tree, mode, flat_state, validated, uploaded, stored, staging, world>>

\* the upload walk is over: the with block is left normally
UploadFinished ==
  /\ pc = "upload"
  /\ upload_walk(files) \subseteq uploaded
  /\ Raise(Ok)
  /\ UNCHANGED <<request, tree, mode, flat_state, validated, storage, staging, world>>

\* the block is left without the cleanup of the temporary directory
Release_Leak ==
  /\ pc = "release"
  /\ pc' = "done"
  /\ UNCHANGED <<request, tree, mode, flat_state, validated, response, storage, staging, world>>

\* TemporaryDirectory.__exit__ (line 210): the staging tree is removed
Release ==
  /\ pc = "release"
  /\ released' = released + 1
  /\ dirs' = {}
  /\ files' = EmptyFn
  /\ pc' = "done"
  /\ UNCHANGED <<request, mode, flat_state, validated, response, storage, acquired, world>>

Next ==
  \/ RejectNotZip
  \/ RejectNoBucket
  \/ Extract
  \/ RouteStructured
  \/ RouteFlat
  \/ RouteFail
  \/ ValidateStructuredAccepts
  \/ ValidateStructuredRejects
  \/ FlatWalk
  \/ FlatMoveFile
  \/ FlatMoveFileFails
  \/ FlatFinalCheckAccepts
  \/ FlatFinalCheckRejects
  \/ PutObject
  \/ PutObjectFails
  \/ UploadFinished
  \/ Release

Spec == Init /\ [][Next]_vars

(***************************************************************************)
(* validate_flat_zip_structure called on its own, on the working root      *)
(* <temp_dir>/<name of the archive> of a staging tree of any shape, up to   *)
(* its return or its exception.                                            *)
(***************************************************************************)
FlatInit ==
  /\ pc = "flat_walk"
  /\ request \in FlatCalls
  /\ dirs = extracted_dirs(request)
  /\ files = extracted_files(request)
  /\ mode = "flat"
  /\ files_outside_classes = {}
  /\ file_count_per_class = EmptyFn
  /\ walk_pending = {}
  /\ validated = FALSE
  /\ response = Pending
  /\ uploaded = {}
  /\ stored = EmptyFn
  /\ put_calls = 0
  /\ acquired = 1
  /\ released = 0
  /\ suspended = NoRequest
  /\ shared_files = EmptyFn

FlatNext ==
  \/ FlatWalk
  \/ FlatVisitClassFolder
  \/ FlatVisitClassFolderFails
  \/ FlatMoveFile
  \/ FlatMoveFileFails
  \/ FlatFinalCheckAccepts
  \/ FlatFinalCheckRejects

FlatSpec == FlatInit /\ [][FlatNext]_vars

(***************************************************************************)
(* validate_zip_structure called on its own, on the staging root of a      *)
(* tree of any shape, up to its return or its exception.                   *)
(***************************************************************************)
StructuredInit ==
  /\ pc = "validate"
  /\ request \in StructuredCalls
  /\ dirs = extracted_dirs(request)
  /\ files = extracted_files(request)
  /\ mode = "structured"
  /\ files_outside_classes = {}
  /\ file_count_per_class = EmptyFn
  /\ walk_pending = {}
  /\ validated = FALSE
  /\ response = Pending
  /\ uploaded = {}
  /\ stored = EmptyFn
  /\ put_calls = 0
  /\ acquired = 1
  /\ released = 0
  /\ suspended = NoRequest
  /\ shared_files = EmptyFn

StructuredNext ==
  \/ ValidateStructuredAccepts
  \/ ValidateStructuredRejects

StructuredSpec == StructuredInit /\ [][StructuredNext]_vars

(***************************************************************************)
(* Properties.                                                             *)
(***************************************************************************)
\* the request failed in the routing or in the chosen validator
ValidationFailed == response.kind \notin {"Pending", "Ok", "StorageError"}

\* the tree the upload step walks has been written to the object store whole
AllStored == {object_name(p) : p \in upload_walk(files)} = DOMAIN stored

\* C1: no object-storage write in a request whose validation fails: a
\* put_object call is made only after the chosen validator returned, and a
\* request that failed in routing or validation has made no put_object call
\* and stored nothing.
C1_NoWriteUnlessValidated ==
  /\ put_calls > 0 => validated
  /\ ValidationFailed => (put_calls = 0 /\ DOMAIN stored = {})

\* a flat request rejected by the final checks after files were moved
C1_Witness ==
  /\ pc = "done"
  /\ mode = "flat"
  /\ response.kind = "FileCountMismatch"
  /\ DOMAIN file_count_per_class # {}
  /\ put_calls = 0

\* C2: upload_zip is all-or-nothing for the object store: a request ends
\* either failed with no object written or successful with every file of
\* the tree written.
C2_AllOrNothing ==
  pc = "release" =>
    \/ response.code # 200 /\ DOMAIN stored = {}
    \/ response.code = 200 /\ AllStored

\* C3: a request that acquired the staging directory releases it on every
\* exit path: the staging directory is held exactly while the request is
\* inside the with block, a request that has not ended can always take a
\* step (a validator always ends with a verdict, every other position has
\* an enabled action), and at the end of the request the acquisitions equal
\* the releases.
C3_StagingReleased ==
  /\ pc = "done" => acquired = released
  /\ pc \notin {"request", "done"} => (acquired = 1 /\ released = 0)
  /\ pc \in {"request", "route", "validate", "flat_walk", "flat_move", "upload",
             "release", "done"}
  /\ pc \in {"request", "route", "flat_walk", "upload", "release"} =>
       ENABLED (\/ RejectNotZip \/ RejectNoBucket \/ Extract
                \/ RouteStructured \/ RouteFlat \/ RouteFail
                \/ FlatWalk
                \/ PutObject \/ PutObjectFails \/ UploadFinished
                \/ Release)
  /\ pc = "validate" => structured_verdicts # {}
  /\ (pc = "flat_move" /\ files_outside_classes = {}) => flat_verdicts # {}

\* a flat request that failed on a file after another file was moved, ended
C3_Witness ==
  /\ pc = "done"
  /\ acquired = 1
  /\ released = 1
  /\ response.kind = "UnrecognizedFilename"
  /\ DOMAIN file_count_per_class # {}

\* a tree of one dataset folder holding nc class folders, each holding the
\* files with stems 1..nf, one file a stem, with valid image extensions
IsWellFormedStructured(d, f, nc, nf) ==
  /\ Cardinality(SubDirs(d, <<>>)) = 1
  /\ LET cls == SubDirs(d, CHOOSE db \in SubDirs(d, <<>>) : TRUE)
     IN  /\ Cardinality(cls) = nc
         /\ \A c \in cls :
              /\ SubDirs(d, c) = {}
              /\ Cardinality(FileNamesIn(f, c)) = nf
              /\ {splitext(n).root : n \in FileNamesIn(f, c)} = {Numeral(i) : i \in 1..nf}
              /\ \A n \in FileNamesIn(f, c) : splitext(n).ext \in VALID_EXTENSIONS

FlatAccepted == mode = "flat" /\ validated /\ pc = "upload"

\* C5: every tree the flat-mode normalizer accepts passes the structured
\* rules: the class folders are expected_num_classes and each one passes
\* validate_class_folder.
C5_FlatResultIsStructured ==
  FlatAccepted =>
    /\ Cardinality(SubDirs(dirs, matching_dir_path)) = request.expected_num_classes
    /\ \A c \in SubDirs(dirs, matching_dir_path) :
         validate_class_folder(c, FileNamesIn(files, c),
                               request.expected_num_files_per_class) = {Ok}

\* the loose files of the working root of the extracted archive
loose_files(req) ==
  {p \in DOMAIN extracted_files(req) :
     Len(p) = 2 /\ Parent(p) = <<splitext(req.filename).root>>}

\* C6: for a flat archive whose file names are all class-qualified, the
\* outcome of validate_flat_zip_structure is the same for every order in
\* which the files are listed: the verdict and, on accept, the file names
\* of the tree and the per-class counts; the run of the request ended with
\* that outcome.
C6_OrderIndependent ==
  (/\ mode = "flat"
   /\ pc \in {"upload", "release"}
   /\ \A p \in loose_files(request) : pattern_with_class(splitext(basename(p)).root))
    => \A o \in Perms(loose_files(request)) :
         flat_run(extracted_dirs(request), extracted_files(request), matching_dir_path, o,
                  request.expected_num_classes, request.expected_num_files_per_class)
           = [accepted |-> validated,
              dirs |-> IF validated THEN dirs ELSE {},
              names |-> IF validated THEN DOMAIN files ELSE {},
              counts |-> IF validated THEN file_count_per_class ELSE EmptyFn]

\* two class-qualified files of two classes were moved and accepted
C6_Witness ==
  /\ FlatAccepted
  /\ Cardinality(loose_files(request)) = 2
  /\ Cardinality(DOMAIN file_count_per_class) = 2

\* C7: after a successful validation, in either mode, every file of the
\* tree handed to the upload step has an extension of VALID_EXTENSIONS.
C7_StoredFilesAreImages ==
  (validated /\ pc = "upload") =>
    \A p \in upload_walk(files) : is_valid_image(basename(p))

\* C8: after validate_flat_zip_structure succeeds every class folder holds
\* expected_num_files_per_class files, the count accumulated for a class is
\* the number of files in its folder, and every loose file of the archive
\* is still in the tree.
C8_CountsArePhysical ==
  FlatAccepted =>
    /\ \A c \in SubDirs(dirs, matching_dir_path) :
         /\ Cardinality(FileNamesIn(files, c)) = request.expected_num_files_per_class
         /\ basename(c) \in DOMAIN file_count_per_class
         /\ file_count_per_class[basename(c)] = Cardinality(FileNamesIn(files, c))
    /\ loose_files(request) \subseteq {files[p] : p \in DOMAIN files}

\* the leading run of [A-Z0-9] of a stem, and what follows its separators
class_token(stem) == SubSeq(stem, 1, FirstNotIn(stem, 1, ClassChars) - 1)

index_digits(stem) ==
  Tail2(stem, FirstNotIn(stem, FirstNotIn(stem, 1, ClassChars), SepChars))

\* C9: for every stem matching the class-qualified pattern, the split of
\* the flat-mode normalizer gives the leading class token as the class and
\* the trailing 2-4 digits as the index.
C9_SplitIsTokenAndIndex ==
  \A p \in files_outside_classes :
    pattern_with_class(splitext(basename(p)).root) =>
      /\ split_class(splitext(basename(p)).root).head
           = class_token(splitext(basename(p)).root)
      /\ split_class(splitext(basename(p)).root).tail
           = index_digits(splitext(basename(p)).root)

\* C10: after a successful flat run every class-qualified loose file is at
\* <working root>/<classId>/<index><ext>, no file is left directly under
\* the working root, and every file below it is <class>/<index><ext> with
\* an index of 2-4 digits.
C10_LooseFilesCanonical ==
  FlatAccepted =>
    /\ FileNamesIn(files, matching_dir_path) = {}
    /\ \A p \in DOMAIN files :
         IsUnder(p, matching_dir_path) =>
           /\ Len(p) = Len(matching_dir_path) + 2
           /\ Len(splitext(basename(p)).root) \in 2..4
           /\ \A i \in 1..Len(splitext(basename(p)).root) :
                splitext(basename(p)).root[i] \in Digits
    /\ \A src \in loose_files(request) :
         pattern_with_class(splitext(basename(src)).root) =>
           matching_dir_path
             \o <<class_token(splitext(basename(src)).root),
                  index_digits(splitext(basename(src)).root) \o splitext(basename(src)).ext>>
             \in DOMAIN files

(***************************************************************************)
(* Claims about validate_class_folder and validate_zip_structure, read on  *)
(* the class folders of the tree a structured request validates.           *)
(***************************************************************************)
\* validate_zip_structure is about to be called, or has raised
StructuredCall ==
  /\ mode = "structured"
  /\ pc \in {"validate", "release"}
  /\ ~validated

\* the indices of 1..n no stem of fs parses to
MissingOf(fs, n) ==
  {k \in 1..n : ~\E file \in fs : /\ int(splitext(file).root).ok
                                  /\ int(splitext(file).root).val = k}

IsAscending(s) == \A i \in 1..(Len(s) - 1) : s[i] < s[i + 1]

Range(s) == {s[i] : i \in 1..Len(s)}

\* C11: for a non-empty class folder whose files all have a valid image
\* extension and whose set M of missing indices is non-empty,
\* validate_class_folder fails with the missing-indices error listing
\* exactly M in ascending order, whether or not the file count matches; and
\* a request answered with that error names such a folder and its M.
C11_MissingIndicesReported ==
  StructuredCall =>
    /\ \A c \in class_folders_of(dirs) :
         ( /\ FileNamesIn(files, c) # {}
           /\ \A file \in FileNamesIn(files, c) : is_valid_image(file)
           /\ MissingOf(FileNamesIn(files, c), request.expected_num_files_per_class) # {} )
         => /\ validate_class_folder(c, FileNamesIn(files, c),
                                     request.expected_num_files_per_class) # {}
            /\ \A v \in validate_class_folder(c, FileNamesIn(files, c),
                                              request.expected_num_files_per_class) :
                 /\ v.code = 400
                 /\ v.kind = "MissingIndices"
                 /\ v.name = c
                 /\ IsAscending(v.missing)
                 /\ Range(v.missing)
                      = MissingOf(FileNamesIn(files, c), request.expected_num_files_per_class)
    /\ response.kind = "MissingIndices" =>
         /\ response.name \in class_folders_of(dirs)
         /\ IsAscending(response.missing)
         /\ Range(response.missing)
              = MissingOf(FileNamesIn(files, response.name),
                          request.expected_num_files_per_class)
         /\ Range(response.missing) # {}

\* a request fails with two missing indices listed in ascending order for a
\* folder whose file count differs from the expected one as well
C11_Witness ==
  /\ StructuredCall
  /\ pc = "release"
  /\ response.kind = "MissingIndices"
  /\ Len(response.missing) >= 2
  /\ IsAscending(response.missing)
  /\ Cardinality(FileNamesIn(files, response.name)) # request.expected_num_files_per_class

\* the files of fs whose extension is none of the accepted ones
NotImages(fs) == {file \in fs : splitext(file).ext \notin VALID_EXTENSIONS}

\* C12: a non-empty class folder holding at least one file whose extension
\* is not a valid image extension makes validate_class_folder fail with the
\* invalid-image-extension error naming such a file of that folder,
\* whatever its other files are; and a request answered with that error
\* names a file of a class folder that is not an image.
C12_ExtensionRejected ==
  StructuredCall =>
    /\ \A c \in class_folders_of(dirs) :
         NotImages(FileNamesIn(files, c)) # {}
         => /\ validate_class_folder(c, FileNamesIn(files, c),
                                     request.expected_num_files_per_class) # {}
            /\ \A v \in validate_class_folder(c, FileNamesIn(files, c),
                                              request.expected_num_files_per_class) :
                 /\ v.code = 400
                 /\ v.kind = "InvalidImageExtension"
                 /\ Parent(v.name) = c
                 /\ basename(v.name) \in NotImages(FileNamesIn(files, c))
    /\ response.kind = "InvalidImageExtension" =>
         /\ Parent(response.name) \in class_folders_of(dirs)
         /\ basename(response.name) \in NotImages(FileNamesIn(files, Parent(response.name)))

\* a request fails with the error for a folder whose image files hold
\* every expected index
C12_Witness ==
  /\ StructuredCall
  /\ pc = "release"
  /\ response.kind = "InvalidImageExtension"
  /\ MissingOf(FileNamesIn(files, Parent(response.name))
                \ NotImages(FileNamesIn(files, Parent(response.name))),
               request.expected_num_files_per_class) = {}

(***************************************************************************)
(* Claims about the stems the two validators accept.                       *)
(***************************************************************************)
\* the stem matches neither pattern
Unrecognized(stem) == ~pattern_with_class(stem) /\ ~pattern_without_class(stem)

\* the files of the archive below its top-level entry
archive_files(req) == {p \in req.archive.files : Len(p) >= 2}

\* C13 as stated: no archive holding a file with an unrecognized stem is
\* accepted, by either validator.
C13_UnrecognizedNeverAccepted ==
  validated =>
    \A p \in archive_files(request) : ~Unrecognized(splitext(basename(p)).root)

\* C13 amended: validate_flat_zip_structure, called on a working root of
\* loose files, accepts no archive holding a loose file whose stem is
\* unrecognized: the request fails, and when it fails as a client error it
\* is with UnrecognizedFilename naming a loose file that is not
\* class-qualified.
C13_FlatRejectsUnrecognized ==
  ( /\ mode = "flat"
    /\ \E p \in loose_files(request) : Unrecognized(splitext(basename(p)).root) )
  => /\ ~validated
     /\ pc \in {"release", "done"} =>
          /\ response.code \in {400, 500}
          /\ response.code = 400 =>
               /\ response.kind = "UnrecognizedFilename"
               /\ response.name \in loose_files(request)
               /\ ~pattern_with_class(splitext(basename(response.name)).root)

\* a flat request fails on a loose file whose stem matches neither pattern
C13_Witness ==
  /\ mode = "flat"
  /\ pc = "release"
  /\ response.kind = "UnrecognizedFilename"
  /\ Unrecognized(splitext(basename(response.name)).root)

(***************************************************************************)
(* Claims about validate_flat_zip_structure.                               *)
(***************************************************************************)
\* the call has returned or raised
FlatCallEnded == mode = "flat" /\ pc \in {"upload", "release"}

\* the files of the archive in a folder one level below the working root,
\* not the folder that bears the name of the working root, whose stem is
\* class-qualified with a class token that is not the name of the folder
mismatched_files(req) ==
  {p \in archive_files(req) :
     /\ Len(p) = 3
     /\ Parent(Parent(p)) = <<splitext(req.filename).root>>
     /\ basename(Parent(p)) # splitext(req.filename).root
     /\ pattern_with_class(splitext(basename(p)).root)
     /\ class_token(splitext(basename(p)).root) # basename(Parent(p))}

\* C14: a class-qualified file in a folder one level below the working
\* root whose class token differs from the name of the folder makes
\* validate_flat_zip_structure fail, and the file keeps its name.
C14_TokenMismatchRejected ==
  (FlatCallEnded /\ mismatched_files(request) # {}) =>
    /\ ~validated
    /\ \A p \in mismatched_files(request) : p \in DOMAIN files

\* the loose files of the archive that are not class-qualified
unqualified_loose(req) ==
  {p \in loose_files(req) : ~pattern_with_class(splitext(basename(p)).root)}

\* C15: a loose file that is not class-qualified makes
\* validate_flat_zip_structure fail with UnrecognizedFilename, and the file
\* is left where it was, no count recorded for it.
C15_UnqualifiedLooseRejected ==
  (FlatCallEnded /\ unqualified_loose(request) # {}) =>
    /\ ~validated
    /\ response.kind = "UnrecognizedFilename"
    /\ response.name \in unqualified_loose(request)
    /\ \A p \in unqualified_loose(request) : p \in DOMAIN files

\* the call of upload_zip has ended and no file of the list raised: every
\* loose file was processed and the final checks were made
FlatFinalChecked ==
  /\ FlatCallEnded
  /\ files_outside_classes = {}
  /\ response.kind \notin {"UnrecognizedFilename", "InternalFault"}

\* the classes whose accumulated count is not the expected one
miscounted ==
  {c \in DOMAIN file_count_per_class :
     file_count_per_class[c] # request.expected_num_files_per_class}

\* C16: once every file was processed without a failure of its own,
\* validate_flat_zip_structure fails with ClassCountMismatch(found,
\* expected) iff the number of classes accumulated is not
\* expected_num_classes; otherwise it fails with FileCountMismatch(class,
\* found, expected) iff some class's count is not
\* expected_num_files_per_class, naming such a class; and it succeeds iff
\* neither holds.
C16_FlatFinalVerdict ==
  FlatFinalChecked =>
    /\ response.kind = "ClassCountMismatch"
         <=> Cardinality(DOMAIN file_count_per_class) # request.expected_num_classes
    /\ response.kind = "ClassCountMismatch" =>
         /\ response.code = 400
         /\ response.found = Cardinality(DOMAIN file_count_per_class)
         /\ response.expected = request.expected_num_classes
    /\ response.kind = "FileCountMismatch"
         <=> /\ Cardinality(DOMAIN file_count_per_class) = request.expected_num_classes
             /\ miscounted # {}
    /\ response.kind = "FileCountMismatch" =>
         /\ response.code = 400
         /\ \E c \in miscounted :
              /\ response.name = <<c>>
              /\ response.found = file_count_per_class[c]
              /\ response.expected = request.expected_num_files_per_class
    /\ validated
         <=> /\ Cardinality(DOMAIN file_count_per_class) = request.expected_num_classes
             /\ miscounted = {}
    /\ validated <=> response.kind \notin {"ClassCountMismatch", "FileCountMismatch"}

\* the final checks fail on the count of a class, the number of classes
\* being the expected one
C16_Witness ==
  /\ FlatFinalChecked
  /\ response.kind = "FileCountMismatch"
  /\ Cardinality(DOMAIN file_count_per_class) = request.expected_num_classes
  /\ file_count_per_class # EmptyFn

(***************************************************************************)
(* Claims about validate_zip_structure.                                    *)
(***************************************************************************)
\* every class folder of the tree passes on its own: it holds no folder and
\* validate_class_folder accepts its files
AllClassFoldersPass ==
  \A c \in class_folders_of(dirs) :
    /\ SubDirs(dirs, c) = {}
    /\ validate_class_folder(c, FileNamesIn(files, c),
                             request.expected_num_files_per_class) = {Ok}

\* C17: with one dataset root whose class folders all pass on their own
\* and whose number is not expected_num_classes, validate_zip_structure
\* fails with ClassCountMismatch(found, expected); while a class folder has
\* a defect the call never fails with ClassCountMismatch, so a request
\* answered with it had all its class folders pass.
C17_ClassCountAfterFolders ==
  StructuredCall =>
    /\ ( /\ Cardinality(SubDirs(dirs, <<>>)) = 1
         /\ AllClassFoldersPass
         /\ Cardinality(class_folders_of(dirs)) # request.expected_num_classes )
       => /\ validate_zip_structure(dirs, files, request.expected_num_classes,
                                    request.expected_num_files_per_class)
               = {ClientError("ClassCountMismatch", <<>>,
                              Cardinality(class_folders_of(dirs)),
                              request.expected_num_classes)}
          /\ pc # "validate" =>
               /\ response.kind = "ClassCountMismatch"
               /\ response.code = 400
               /\ response.found = Cardinality(class_folders_of(dirs))
               /\ response.expected = request.expected_num_classes
    /\ ~AllClassFoldersPass =>
         /\ \A v \in validate_zip_structure(dirs, files, request.expected_num_classes,
                                             request.expected_num_files_per_class) :
              v.kind # "ClassCountMismatch"
         /\ response.kind # "ClassCountMismatch"

\* a request whose two class folders pass fails on their number
C17_Witness ==
  /\ StructuredCall
  /\ pc = "release"
  /\ AllClassFoldersPass
  /\ response.kind = "ClassCountMismatch"
  /\ response.found = 2
  /\ response.expected # 2

\* C18: a tree validate_zip_structure accepted has no regular file directly
\* inside the dataset root: every file below the dataset root lies inside
\* one of its class folders.
C18_DatasetRootHoldsFoldersOnly ==
  (mode = "structured" /\ validated) =>
    \A db \in SubDirs(dirs, <<>>) :
      /\ FileNamesIn(files, db) = {}
      /\ \A p \in DOMAIN files :
           IsUnder(p, db) => Parent(p) \in SubDirs(dirs, db)

(***************************************************************************)
(* Claims about the routing of upload_zip.                                 *)
(***************************************************************************)
\* the archive was extracted and the routing of lines 226-236 was done
Routed == acquired = 1 /\ pc # "route"

\* the directories the archive has at its top level
top_level_dirs(req) == SubDirs(extracted_dirs(req), <<>>)

\* C19 as stated: the top-level directory of the archive decides the
\* validator, structured when it holds a directory and flat when it holds
\* none, so one of the two validators is chosen for every extracted
\* archive.
C19_TopLevelEntryRouted ==
  (Routed /\ Cardinality(top_level_dirs(request)) = 1) =>
    \A e \in top_level_dirs(request) :
      /\ SubDirs(extracted_dirs(request), e) # {} => mode = "structured"
      /\ SubDirs(extracted_dirs(request), e) = {} => mode = "flat"

\* C19 amended: the directory named after the uploaded file decides.  When
\* the archive holds it, the request is routed to validate_zip_structure
\* if it holds a directory and to validate_flat_zip_structure if it holds
\* none; when the archive does not hold it, neither validator is called
\* and the request fails with 400.  The choice is made before any file is
\* moved, and each validator runs under its own choice only.
C19_RoutedByMatchingDir ==
  /\ Routed =>
       /\ mode = "structured"
            <=> /\ matching_dir_path \in extracted_dirs(request)
                /\ SubDirs(extracted_dirs(request), matching_dir_path) # {}
       /\ mode = "flat"
            <=> /\ matching_dir_path \in extracted_dirs(request)
                /\ SubDirs(extracted_dirs(request), matching_dir_path) = {}
       /\ mode = "none" <=> matching_dir_path \notin extracted_dirs(request)
       /\ mode = "none" =>
            /\ ~validated
            /\ response.code = 400
            /\ response.kind = "ValidationFailed"
  /\ ~Routed =>
       /\ mode = "none"
       /\ pc = "route" =>
            /\ dirs = extracted_dirs(request)
            /\ files = extracted_files(request)
  /\ pc = "validate" => mode = "structured"
  /\ pc \in {"flat_walk", "flat_walk_folders", "flat_move"} => mode = "flat"
  /\ validated => mode # "none"

\* an archive whose one top-level directory is not named after the
\* uploaded file was extracted and no validator was chosen
C19_Witness ==
  /\ Routed
  /\ Cardinality(top_level_dirs(request)) = 1
  /\ mode = "none"
  /\ response.kind = "ValidationFailed"

\* C20: validate_zip_structure fails with InvalidRootCount whenever the
\* staging root holds no directory or more than one, and a tree it accepts
\* has exactly one directory directly under the staging root.
C20_ExactlyOneDatasetRoot ==
  (mode = "structured" /\ pc \in {"validate", "upload", "release"}) =>
    /\ Cardinality(SubDirs(dirs, <<>>)) # 1 =>
         /\ validate_zip_structure(dirs, files, request.expected_num_classes,
                                   request.expected_num_files_per_class)
              = {ClientError("InvalidRootCount", <<>>, Cardinality(SubDirs(dirs, <<>>)), 1)}
         /\ pc # "validate" =>
              /\ response.code = 400
              /\ response.kind = "InvalidRootCount"
    /\ response.kind = "InvalidRootCount" => Cardinality(SubDirs(dirs, <<>>)) # 1
    /\ validated => Cardinality(SubDirs(dirs, <<>>)) = 1

\* the call failed on a staging root that holds no directory
C20_Witness ==
  /\ StructuredCall
  /\ pc = "release"
  /\ response.kind = "InvalidRootCount"
  /\ SubDirs(dirs, <<>>) = {}

(***************************************************************************)
(* Claims about the shape of an accepted tree.                             *)
(***************************************************************************)
\* a validator has returned True
Accepted == validated /\ pc = "upload"

\* C21: in every tree a validator accepted, the directories below the
\* dataset root are its class folders and nothing else: no directory is
\* nested inside a directory of the dataset root.
C21_NoNestedDirectory ==
  Accepted =>
    \A q \in dirs : IsUnder(q, matching_dir_path) => Parent(q) = matching_dir_path

(***************************************************************************)
(* Claims about the two filename patterns.                                 *)
(***************************************************************************)
\* the separators the pattern matcher is specified with
SpecSeparators == {" ", "-", "_"}

\* 1-6 characters of [A-Z0-9], one or more separators, 2-4 digits
IsClassQualified(stem) ==
  \E i \in 1..6 : \E j \in (i + 1)..(Len(stem) - 2) :
    /\ \A k \in 1..i : stem[k] \in ClassChars
    /\ \A k \in (i + 1)..j : stem[k] \in SpecSeparators
    /\ (Len(stem) - j) \in 2..4
    /\ \A k \in (j + 1)..Len(stem) : stem[k] \in Digits

\* exactly 2-4 digits
IsBare(stem) ==
  /\ Len(stem) \in 2..4
  /\ \A k \in 1..Len(stem) : stem[k] \in Digits

\* C22: pattern_with_class accepts exactly the stems that are 1-6
\* characters of [A-Z0-9], one or more of space, hyphen and underscore, and
\* 2-4 digits; pattern_without_class accepts exactly the stems of 2-4
\* digits; and no stem is accepted by both.
C22_PatternsExact ==
  \A p \in archive_files(request) :
    /\ pattern_with_class(splitext(basename(p)).root)
         <=> IsClassQualified(splitext(basename(p)).root)
    /\ pattern_without_class(splitext(basename(p)).root)
         <=> IsBare(splitext(basename(p)).root)
    /\ ~( /\ pattern_with_class(splitext(basename(p)).root)
          /\ pattern_without_class(splitext(basename(p)).root) )

(***************************************************************************)
(* Claims about a structured tree given to the flat validator.             *)
(***************************************************************************)
\* the working root of the call holds class folders, and nothing but class
\* folders of files whose stems are plain indices
already_structured(req) ==
  /\ \E d \in req.archive.dirs : Parent(d) = <<splitext(req.filename).root>>
  /\ \A d \in req.archive.dirs :
       d = <<splitext(req.filename).root>> \/ Parent(d) = <<splitext(req.filename).root>>
  /\ \A p \in req.archive.files :
       /\ Len(p) = 3
       /\ Parent(p) \in req.archive.dirs
       /\ splitext(basename(p)).root # <<>>
       /\ \A k \in 1..Len(splitext(basename(p)).root) :
            splitext(basename(p)).root[k] \in Digits

UploadStep == validated /\ pc \in {"upload", "release"}

\* the put_object calls made so far: one for each file stored, and the one
\* that raised
puts_expected ==
  Cardinality(uploaded) + (IF response.kind = "StorageError" THEN 1 ELSE 0)

\* put_object is called for files inside a subdirectory only, once each,
\* under the relative path of the file, and for all of them when the request
\* succeeds; nothing lying directly in the staging root is stored
PutOncePerFile ==
  UploadStep =>
    /\ uploaded \subseteq upload_walk(files)
    /\ put_calls = puts_expected
    /\ DOMAIN stored = {object_name(p) : p \in uploaded}
    /\ response = Ok => uploaded = upload_walk(files)
    /\ \A p \in DOMAIN files :
         Len(p) = 1 => (p \notin uploaded /\ object_name(p) \notin DOMAIN stored)

\* C24: after a successful validation upload_zip calls put_object exactly
\* once for every file of the staging tree inside a subdirectory, under the
\* key that is its path relative to the staging root joined by '/'; distinct
\* files get distinct keys, and no file lying directly in the staging root,
\* the uploaded archive included, is stored.
C24_UploadStep ==
  /\ PutOncePerFile
  /\ UploadStep =>
       \A p, q \in upload_walk(files) : p # q => object_name(p) # object_name(q)

(***************************************************************************)
(* Two upload_zip requests on one event loop.  A coroutine runs until it   *)
(* awaits something that suspends it: check_bucket_exists and the two      *)
(* validators hold no await and the MinIO client blocks, so a request      *)
(* gives way only at `await file.read()` (line 213), after it created its  *)
(* temporary directory and opened the file it writes the upload to.  The   *)
(* variables of the request hold the request that runs, suspended the one  *)
(* that waits; the bucket and the files outside the temporary directories  *)
(* are common to both.                                                     *)
(***************************************************************************)
frame ==
  [pc |-> pc, request |-> request, dirs |-> dirs, files |-> files, mode |-> mode,
   files_outside_classes |-> files_outside_classes,
   file_count_per_class |-> file_count_per_class, walk_pending |-> walk_pending,
   validated |-> validated, response |-> response, uploaded |-> uploaded,
   put_calls |-> put_calls, acquired |-> acquired, released |-> released]

\* a request that has not started
new_frame(req) ==
  [pc |-> "request", request |-> req, dirs |-> {}, files |-> EmptyFn, mode |-> "none",
   files_outside_classes |-> {}, file_count_per_class |-> EmptyFn, walk_pending |-> {},
   validated |-> FALSE, response |-> Pending, uploaded |-> {},
   put_calls |-> 0, acquired |-> 0, released |-> 0]

\* os.path.join(temp_dir, file.filename), line 211: an absolute file name
\* discards temp_dir, the path joined is the file name itself
is_absolute(name) == name # <<>> /\ name[1] = "/"

\* the length of the bytes of an archive, in units: the longer the more
\* entries it holds
archive_size(a) == 1 + Cardinality(a.files)

\* f.write(...) at offset 0 of a file that holds content (line 213): the
\* bytes written replace the first bytes, what lies beyond them stays.
\* Every unit of the content is tagged with the archive it belongs to
written_over(content, a) ==
  [i \in 1..SetMax({archive_size(a), Len(content)}) |->
     IF i <= archive_size(a) THEN a ELSE content[i]]

\* zipfile.ZipFile(temp_file_path).extractall (lines 216-217) succeeds on
\* the bytes of one whole archive; on bytes of two archives it raises
\* BadZipFile
is_one_archive(content) ==
  /\ content # <<>>
  /\ \A i \in 1..Len(content) : content[i] = content[1]
  /\ Len(content) = archive_size(content[1])

\* the bytes the request finds at temp_file_path once it wrote its upload
temp_file_content ==
  IF is_absolute(request.filename)
    THEN written_over(shared_files[request.filename], request.archive)
    ELSE written_over(<<>>, request.archive)

\* lines 210-212: the temporary directory is created and temp_file_path is
\* opened with 'wb+', which creates it or empties it
OpenTempFile ==
  /\ pc = "request"
  /\ endswith(request.filename, <<".", "z", "i", "p">>)
  /\ request.bucket_exists
  /\ acquired' = acquired + 1
  /\ files' = IF is_absolute(request.filename) THEN files
              ELSE With(files, <<request.filename>>, <<request.filename>>)
  /\ shared_files' = IF is_absolute(request.filename)
                       THEN With(shared_files, request.filename, <<>>)
                       ELSE shared_files
  /\ pc' = "read"
  /\ UNCHANGED <<request, dirs, mode, flat_state, validated, response, storage,
                 released, suspended>>

\* lines 213-217: the upload is written and the archive read back from
\* temp_file_path is extracted into the temporary directory
WriteAndExtract ==
  /\ pc = "read"
  /\ is_one_archive(temp_file_content)
  /\ shared_files' = IF is_absolute(request.filename)
                       THEN With(shared_files, request.filename, temp_file_content)
                       ELSE shared_files
  /\ dirs' = temp_file_content[1].dirs
  /\ files' = [p \in DOMAIN files \cup temp_file_content[1].files |-> p]
  /\ pc' = "route"
  /\ UNCHANGED <<request, mode, flat_state, validated, response, storage, staging,
                 suspended>>

\* lines 213-217: what temp_file_path holds is no archive, ZipFile raises
WriteAndExtractFails ==
  /\ pc = "read"
  /\ ~is_one_archive(temp_file_content)
  /\ shared_files' = IF is_absolute(request.filename)
                       THEN With(shared_files, request.filename, temp_file_content)
                       ELSE shared_files
  /\ Raise(InternalFault(request.filename))
  /\ UNCHANGED <<request, tree, mode, flat_state, validated, storage, staging,
                 suspended>>

\* the event loop resumes the other request: the one that runs is at its
\* await (line 213), has not started, or has ended
Switch ==
  /\ suspended # NoRequest
  /\ pc \in {"request", "read", "done"}
  /\ suspended.pc # "done"
  /\ suspended' = frame
  /\ pc' = suspended.pc
  /\ request' = suspended.request
  /\ dirs' = suspended.dirs
  /\ files' = suspended.files
  /\ mode' = suspended.mode
  /\ files_outside_classes' = suspended.files_outside_classes
  /\ file_count_per_class' = suspended.file_count_per_class
  /\ walk_pending' = suspended.walk_pending
  /\ validated' = suspended.validated
  /\ response' = suspended.response
  /\ uploaded' = suspended.uploaded
  /\ put_calls' = suspended.put_calls
  /\ acquired' = suspended.acquired
  /\ released' = suspended.released
  /\ UNCHANGED <<stored, shared_files>>

\* the uploads of the two requests: one for every way upload_zip ends, and
\* two whose file name is an absolute path, with archives of two lengths
ConcurrentRequests ==
  { Request(dsTar, TRUE, WellFormed(1, 1), 1, 1),
    Request(dsZip, FALSE, WellFormed(1, 1), 1, 1),
    Request(dsZip, TRUE, WellFormed(1, 1), 1, 1),
    Request(dsZip, TRUE, WellFormed(1, 1), 2, 1),
    Request(dsZip, TRUE, Archive({<<ds>>}, {<<ds, <<"A", "_", "0", "1">> \o png>>}), 1, 1),
    Request(dsZip, TRUE, Archive({<<ds>>}, {<<ds, <<"A", "_", "0", "1">> \o png>>}), 2, 1),
    Request(dsZip, TRUE, Archive({<<ds>>}, {<<ds, <<"0", "1">> \o png>>}), 1, 1),
    Request(dsZip, TRUE, Archive({<<other>>}, {<<other, NumberedFile(1)>>}), 1, 1),
    Request(<<"/">> \o dsZip, TRUE, WellFormed(1, MaxExpected), 1, MaxExpected),
    Request(<<"/">> \o dsZip, TRUE,
            Archive({<<ds>>}, {<<ds, <<"A", "_", "0", "1">> \o png>>}), 1, 1) }

ConcurrentInit ==
  /\ pc = "request"
  /\ request \in ConcurrentRequests
  /\ dirs = {}
  /\ files = EmptyFn
  /\ mode = "none"
  /\ files_outside_classes = {}
  /\ file_count_per_class = EmptyFn
  /\ walk_pending = {}
  /\ validated = FALSE
  /\ response = Pending
  /\ uploaded = {}
  /\ stored = EmptyFn
  /\ put_calls = 0
  /\ acquired = 0
  /\ released = 0
  /\ suspended \in {new_frame(req) : req \in ConcurrentRequests}
  /\ shared_files = EmptyFn

ConcurrentNext ==
  \/ RejectNotZip
  \/ RejectNoBucket
  \/ OpenTempFile
  \/ WriteAndExtract
  \/ WriteAndExtractFails
  \/ RouteStructured
  \/ RouteFlat
  \/ RouteFail
  \/ ValidateStructuredAccepts
  \/ ValidateStructuredRejects
  \/ FlatWalk
  \/ FlatMoveFile
  \/ FlatMoveFileFails
  \/ FlatFinalCheckAccepts
  \/ FlatFinalCheckRejects
  \/ PutObject
  \/ PutObjectFails
  \/ UploadFinished
  \/ Release
  \/ Switch

ConcurrentSpec == ConcurrentInit /\ [][ConcurrentNext]_vars


\* the verdicts the validation of upload_zip can end with for the request
\* req when no other request is in flight (lines 204-236): Ok when the chosen
\* validator returns True
verdicts_alone(req) ==
  LET temp_dir == <<splitext(req.filename).root>>
      d == req.archive.dirs
      f == [p \in req.archive.files
                    \cup (IF is_absolute(req.filename) THEN {} ELSE {<<req.filename>>}) |-> p]
      loose == {p \in DOMAIN f : Parent(p) = temp_dir /\ IsUnder(p, temp_dir)}
      moved(order) ==
        move_all([d |-> d, f |-> f, counts |-> EmptyFn, verdict |-> Pending],
                 temp_dir, order)
  IN  IF ~endswith(req.filename, <<".", "z", "i", "p">>)
        THEN {ClientError("NotAZip", req.filename, 0, 0)}
      ELSE IF ~req.bucket_exists
        THEN {Verdict(404, "NoBucket", <<>>, 0, 0, <<>>)}
      ELSE IF temp_dir \notin d
        THEN {ClientError("ValidationFailed", temp_dir, 0, 0)}
      ELSE IF SubDirs(d, temp_dir) # {}
        THEN validate_zip_structure(d, f, req.expected_num_classes,
                                    req.expected_num_files_per_class)
      ELSE UNION { IF moved(order).verdict # Pending THEN {moved(order).verdict}
                   ELSE flat_final_check(moved(order).counts, req.expected_num_classes,
                                         req.expected_num_files_per_class) :
                   order \in Perms(loose) }

\* the validation of the request of frame fr has ended with this verdict
validation_verdict(fr) == IF fr.validated THEN Ok ELSE fr.response

validation_ended(fr) ==
  fr.validated \/ (fr.pc \in {"release", "done"} /\ fr.response # Pending)

\* C25: whatever the interleaving of two upload_zip requests, the validation
\* of each ends with a verdict it can end with when the request runs alone:
\* no request reads what the other wrote.
C25_VerdictAsAlone ==
  /\ validation_ended(frame) =>
       validation_verdict(frame) \in verdicts_alone(request)
  /\ (suspended # NoRequest /\ validation_ended(suspended)) =>
       validation_verdict(suspended) \in verdicts_alone(suspended.request)


(***************************************************************************)
(* Claims about what the validators change.                                *)
(***************************************************************************)
\* C26: validate_zip_structure and validate_class_folder leave the staging
\* tree as it is, whether they return or raise: between the extraction and
\* the removal of the temporary directory, every step that changes the tree
\* is a step of the loop of validate_flat_zip_structure.
C26_OnlyFlatMutates ==
  [][ tree' # tree =>
        \/ pc = "request"
        \/ pc = "release"
        \/ mode = "flat" /\ pc = "flat_move" ]_vars

\* validate_zip_structure raised on a tree with files, which is as extracted
C26_Witness ==
  /\ mode = "structured"
  /\ pc = "release"
  /\ ~validated
  /\ response.kind # "Pending"
  /\ upload_walk(files) # {}
  /\ dirs = extracted_dirs(request)
  /\ files = extracted_files(request)


(***************************************************************************)
(* Claims about the folders validate_class_folder accepts.                 *)
(***************************************************************************)
\* the files of fs that are extra or share their index: the stem is no
\* integer, the index is outside 1..n, or another file has the same index
surplus(fs, n) ==
  {file \in fs :
     \/ ~int(splitext(file).root).ok
     \/ int(splitext(file).root).val \notin 1..n
     \/ \E g \in fs \ {file} : /\ int(splitext(g).root).ok
                               /\ int(splitext(g).root).val = int(splitext(file).root).val}

\* validate_class_folder returns iff the four conditions hold, and then the
\* indices of the files are 1..n, each once
accepted_iff(c, fs, n) ==
  /\ validate_class_folder(c, fs, n) = {Ok}
       <=> ( /\ fs # {}
             /\ NotImages(fs) = {}
             /\ MissingOf(fs, n) = {}
             /\ Cardinality(fs) = n )
  /\ validate_class_folder(c, fs, n) = {Ok}
       => ( /\ surplus(fs, n) = {}
            /\ {int(splitext(file).root).val : file \in fs} = 1..n )

\* every verdict of validate_class_folder is the file-count error
fails_on_count(c, fs, n) ==
  /\ validate_class_folder(c, fs, n) # {}
  /\ \A v \in validate_class_folder(c, fs, n) :
       v = ClientError("FileCountMismatch", c, Cardinality(fs), n)

\* C27 as stated: validate_class_folder succeeds iff the folder is not
\* empty, every file is an image, every index of 1..n is the integer stem of
\* a file and the files are n, its files then holding the indices 1..n each
\* once; and any folder with extra or duplicate-index files whose indices
\* are complete fails with the file-count error.
C27_AcceptedFolders ==
  StructuredCall =>
    \A c \in class_folders_of(dirs) :
      /\ accepted_iff(c, FileNamesIn(files, c), request.expected_num_files_per_class)
      /\ ( /\ MissingOf(FileNamesIn(files, c), request.expected_num_files_per_class) = {}
           /\ surplus(FileNamesIn(files, c), request.expected_num_files_per_class) # {} )
         => fails_on_count(c, FileNamesIn(files, c), request.expected_num_files_per_class)

\* C27 amended: the same, the file-count error being the one a folder of
\* image files with extra or duplicate-index files and complete indices
\* fails with.
C27_AcceptedFoldersOfImages ==
  StructuredCall =>
    \A c \in class_folders_of(dirs) :
      /\ accepted_iff(c, FileNamesIn(files, c), request.expected_num_files_per_class)
      /\ ( /\ NotImages(FileNamesIn(files, c)) = {}
           /\ MissingOf(FileNamesIn(files, c), request.expected_num_files_per_class) = {}
           /\ surplus(FileNamesIn(files, c), request.expected_num_files_per_class) # {} )
         => fails_on_count(c, FileNamesIn(files, c), request.expected_num_files_per_class)

\* a request failed with the file-count error for a folder of images whose
\* indices are complete and two of whose files share an index
C27_Witness ==
  /\ StructuredCall
  /\ pc = "release"
  /\ response.kind = "FileCountMismatch"
  /\ NotImages(FileNamesIn(files, response.name)) = {}
  /\ MissingOf(FileNamesIn(files, response.name), request.expected_num_files_per_class) = {}
  /\ \E f1 \in FileNamesIn(files, response.name) :
       \E f2 \in FileNamesIn(files, response.name) \ {f1} :
         int(splitext(f1).root).val = int(splitext(f2).root).val


(***************************************************************************)
(* delete_database(bucket_name, database_name) on a bucket that uploads    *)
(* filled.  stored is the bucket; request holds the arguments of the call  *)
(* and the objects the bucket held when it was made.                       *)
(***************************************************************************)
\* str.startswith, the match list_objects(prefix=...) makes on object names
startswith(s, prefix) ==
  Len(s) >= Len(prefix) /\ SubSeq(s, 1, Len(prefix)) = prefix

\* database_name with the '/' check_database_exists appends (lines 27-28 of
\* minio_validators.py)
with_slash(database_name) ==
  IF endswith(database_name, <<"/">>) THEN database_name ELSE database_name \o <<"/">>

\* a second database, whose name starts with the name of the first
ds2 == ds \o <<"2">>

\* object names uploads left in the bucket
BucketKeys ==
  { object_name(<<ds, ClassNames[1], NumberedFile(1)>>),
    object_name(<<ds, ClassNames[1], NumberedFile(2)>>),
    object_name(<<ds2, ClassNames[1], NumberedFile(1)>>),
    object_name(<<ds2, ClassNames[2], NumberedFile(1)>>),
    object_name(<<other, ClassNames[1], NumberedFile(1)>>) }

DatabaseNames == {ds, ds2, other, ds \o <<"/">>, <<"d">>}

DeleteRequests ==
  {[bucket_exists |-> e, database_name |-> n, objects |-> [k \in keys |-> k]] :
     e \in BOOLEAN, n \in DatabaseNames, keys \in SUBSET BucketKeys}

DeleteInit ==
  /\ pc = "delete"
  /\ request \in DeleteRequests
  /\ stored = request.objects
  /\ dirs = {}
  /\ files = EmptyFn
  /\ mode = "none"
  /\ files_outside_classes = {}
  /\ file_count_per_class = EmptyFn
  /\ walk_pending = {}
  /\ validated = FALSE
  /\ response = Pending
  /\ uploaded = {}
  /\ put_calls = 0
  /\ acquired = 0
  /\ released = 0
  /\ suspended = NoRequest
  /\ shared_files = EmptyFn

\* what a delete_database step leaves alone
delete_frame ==
  <<request, tree, mode, flat_state, validated, uploaded, put_calls, staging, world>>

\* line 314: check_bucket_exists raises HTTPException(404), which the
\* `except Exception` of line 327 catches and turns into a 500
DeleteNoBucket ==
  /\ pc = "delete"
  /\ ~request.bucket_exists
  /\ response' = Verdict(500, "UnexpectedError", request.database_name, 0, 0, <<>>)
  /\ pc' = "done"
  /\ UNCHANGED <<stored, delete_frame>>

\* line 315: check_database_exists finds no object under database_name/
DeleteNoDatabase ==
  /\ pc = "delete"
  /\ request.bucket_exists
  /\ ~\E key \in DOMAIN stored : startswith(key, with_slash(request.database_name))
  /\ response' = Verdict(500, "UnexpectedError", request.database_name, 0, 0, <<>>)
  /\ pc' = "done"
  /\ UNCHANGED <<stored, delete_frame>>

\* lines 314-317: both checks pass and the objects are listed
DeleteList ==
  /\ pc = "delete"
  /\ request.bucket_exists
  /\ \E key \in DOMAIN stored : startswith(key, with_slash(request.database_name))
  /\ pc' = "remove"
  /\ UNCHANGED <<stored, response, delete_frame>>

\* lines 317-319: the next object of list_objects(bucket_name,
\* prefix=database_name, recursive=True) is removed
RemoveObject ==
  /\ pc = "remove"
  /\ \E key \in DOMAIN stored :
       /\ startswith(key, request.database_name)
       /\ stored' = [k \in DOMAIN stored \ {key} |-> stored[k]]
  /\ UNCHANGED <<pc, response, delete_frame>>

\* lines 319, 324-326: remove_object raises S3Error
RemoveObjectFails ==
  /\ pc = "remove"
  /\ \E key \in DOMAIN stored :
       /\ startswith(key, request.database_name)
       /\ response' = Verdict(500, "DeleteFailed", key, 0, 0, <<>>)
  /\ pc' = "done"
  /\ UNCHANGED <<stored, delete_frame>>

\* line 322: the listing is exhausted
DeleteFinished ==
  /\ pc = "remove"
  /\ ~\E key \in DOMAIN stored : startswith(key, request.database_name)
  /\ response' = Ok
  /\ pc' = "done"
  /\ UNCHANGED <<stored, delete_frame>>

DeleteNext ==
  \/ DeleteNoBucket
  \/ DeleteNoDatabase
  \/ DeleteList
  \/ RemoveObject
  \/ RemoveObjectFails
  \/ DeleteFinished

DeleteSpec == DeleteInit /\ [][DeleteNext]_vars

\* the object belongs to the database: its key is under 'database_name/'
belongs_to(key, database_name) == startswith(key, with_slash(database_name))

\* C28: delete_database removes only objects of the database: no object
\* whose key is not under 'D/' is ever removed, after a success no object
\* under 'D/' is left, and when the bucket or the database does not exist
\* the bucket is left as it was.
C28_DeleteOnlyDatabase ==
  /\ \A key \in DOMAIN request.objects :
       ~belongs_to(key, request.database_name) =>
         (key \in DOMAIN stored /\ stored[key] = request.objects[key])
  /\ (pc = "done" /\ response = Ok) =>
       \A key \in DOMAIN stored : ~belongs_to(key, request.database_name)
  /\ ( \/ ~request.bucket_exists
       \/ \A key \in DOMAIN request.objects : ~belongs_to(key, request.database_name) )
     => stored = request.objects

====
